---- MODULE Spec2Model ----
(***************************************************************************)
(* Model of PDFStructureExtractor (src/pdf_extractor.py): the font         *)
(* profiler, the title selector and the heading classifier, run in the     *)
(* order extract_structure calls them on the normalised per-page lines.    *)
(*                                                                         *)
(* A text is a string; its characters are read with SubSeq.  A font size   *)
(* is an integer number of hundredths of a point (12.0 pt is 1200).  A     *)
(* title score is kept in hundredths too (the +10 bold bonus is 1000).     *)
(***************************************************************************)
EXTENDS Integers, Sequences, FiniteSets, TLC

VARIABLES pages_data, pc, font_stats, title_candidates, best_line_idx,
          combined_title_parts, part_idx, title, headings, cursor,
          text, is_heading, heading_level, clean_text, result

vars == <<pages_data, pc, font_stats, title_candidates, best_line_idx,
          combined_title_parts, part_idx, title, headings, cursor,
          text, is_heading, heading_level, clean_text, result>>

(***************************************************************************)
(* Characters and the str methods the extractor uses.                      *)
(***************************************************************************)
Min(S) == CHOOSE x \in S : \A y \in S : x <= y

Max(S) == CHOOSE x \in S : \A y \in S : x >= y

Range(s) == {s[i] : i \in 1..Len(s)}

\* s[i-1] of Python: the i-th character, as a string of length 1.
Char(s, i) == IF i >= 1 /\ i <= Len(s) THEN SubSeq(s, i, i) ELSE ""

Chars(s) == {Char(s, i) : i \in 1..Len(s)}

UpperSeq == "ABCDEFGHIJKLMNOPQRSTUVWXYZ"

LowerSeq == "abcdefghijklmnopqrstuvwxyz"

DigitSeq == "0123456789"

\* The characters of the model in code-point order (str comparison in
\* Python is by code point).
CodeOrder == " (),-./" \o DigitSeq \o ":@" \o UpperSeq \o "_" \o LowerSeq \o "©"

Ord == [c \in Chars(CodeOrder) |-> CHOOSE i \in 1..Len(CodeOrder) : Char(CodeOrder, i) = c]

UpperSet == Chars(UpperSeq)

LowerSet == Chars(LowerSeq)

DigitSet == Chars(DigitSeq)

IsSpace(c) == c = " "

IsDigit(c) == c \in DigitSet

IsUpper(c) == c \in UpperSet

IsLower(c) == c \in LowerSet

IsAlpha(c) == IsUpper(c) \/ IsLower(c)

\* \w of the re module: letters, digits and the underscore.
IsWordChar(c) == IsAlpha(c) \/ IsDigit(c) \/ c = "_"

LowerOf == [c \in UpperSet |-> Char(LowerSeq, CHOOSE i \in 1..26 : Char(UpperSeq, i) = c)]

LowerChar(c) == IF IsUpper(c) THEN LowerOf[c] ELSE c

RECURSIVE lower(_)
lower(s) == IF s = "" THEN "" ELSE LowerChar(Head(s)) \o lower(Tail(s))

\* First position >= i whose character does not satisfy P (Len(s)+1 if none).
RunEnd(s, i, P(_)) ==
    CHOOSE j \in i..(Len(s) + 1) :
        /\ j > Len(s) \/ ~P(Char(s, j))
        /\ \A k \in i..(j - 1) : P(Char(s, k))

NotSpace(c) == ~IsSpace(c)

\* str.strip(): leading and trailing whitespace goes.
strip(s) ==
    LET b == RunEnd(s, 1, IsSpace)
    IN  IF b > Len(s) THEN ""
        ELSE SubSeq(s, b, CHOOSE e \in b..Len(s) :
                             /\ ~IsSpace(Char(s, e))
                             /\ \A k \in (e + 1)..Len(s) : IsSpace(Char(s, k)))

RECURSIVE splitFrom(_, _)
splitFrom(s, i) ==
    LET b == RunEnd(s, i, IsSpace)
        e == RunEnd(s, b, NotSpace)
    IN  IF b > Len(s) THEN <<>>
        ELSE <<SubSeq(s, b, e - 1)>> \o splitFrom(s, e)

\* str.split() with no argument: the maximal runs of non-whitespace.
split(s) == splitFrom(s, 1)

\* ' '.join(ws)
RECURSIVE join(_)
join(ws) == IF ws = <<>> THEN ""
            ELSE IF Len(ws) = 1 THEN ws[1]
            ELSE ws[1] \o " " \o join(Tail(ws))

startswith(s, p) == Len(p) <= Len(s) /\ SubSeq(s, 1, Len(p)) = p

endswith(s, p) == Len(p) <= Len(s) /\ SubSeq(s, Len(s) - Len(p) + 1, Len(s)) = p

MatchAt(s, i, p) == i >= 1 /\ i + Len(p) - 1 <= Len(s) /\ SubSeq(s, i, i + Len(p) - 1) = p

\* "p in s"
contains(s, p) == \E i \in 1..(Len(s) - Len(p) + 1) : MatchAt(s, i, p)

RECURSIVE countFrom(_, _, _)
countFrom(s, p, i) ==
    LET hits == {j \in i..Len(s) : MatchAt(s, j, p)}
    IN  IF hits = {} THEN 0 ELSE 1 + countFrom(s, p, Min(hits) + Len(p))

\* str.count: the number of non-overlapping occurrences.
count(s, p) == countFrom(s, p, 1)

isdigit(s) == s # "" /\ \A i \in 1..Len(s) : IsDigit(Char(s, i))

IsDot(c) == c = "."

\* A faulty rstrip('.') that takes one trailing period only.
rstrip_one_dot(s) == IF s # "" /\ IsDot(Char(s, Len(s)))
                     THEN SubSeq(s, 1, Len(s) - 1)
                     ELSE s

\* str.rstrip('.'): every trailing period goes.
RECURSIVE rstrip_dot(_)
rstrip_dot(s) == IF s # "" /\ IsDot(Char(s, Len(s)))
                 THEN rstrip_dot(SubSeq(s, 1, Len(s) - 1))
                 ELSE s

\* a <= b on str, by code point.
RECURSIVE TextLE(_, _)
TextLE(a, b) == IF a = "" THEN TRUE
                ELSE IF b = "" THEN FALSE
                ELSE IF Head(a) = Head(b) THEN TextLE(Tail(a), Tail(b))
                ELSE Ord[Head(a)] < Ord[Head(b)]

\* The title-like phrases of _extract_title_improved.
TitlePhrases == {"overview", "foundation", "extension", "level",
                 "introduction", "guide", "manual"}

\* The words a bold heading must not contain.
CommonWords == {"the", "and", "or", "but", "with", "from"}

\* heading_patterns[0..9], lower-cased (they are matched with re.IGNORECASE).
FixedHeadings == {"revision history", "table of contents", "acknowledgements",
                  "abstract", "introduction", "conclusion", "summary",
                  "references", "bibliography", "appendix"}

\* A faulty fallback title: the empty string.
EmptyTitle == ""

DocumentTitle == "Document Title"

\* A faulty error result: the fallback title in place of the sentinel.
FallbackForError == "Document Title"

ErrorTitle == "Error extracting title"

(***************************************************************************)
(* The regular expressions of the source.  Each is matched the way re      *)
(* matches it; none of them needs backtracking, since every + run is       *)
(* followed by a character outside the run's class.                        *)
(***************************************************************************)
AllSpaceFrom(s, i) == \A j \in i..Len(s) : IsSpace(Char(s, j))

\* ^(Lit)\s*$ with re.IGNORECASE, on the lower-cased text ls
MatchFixed(ls, lit) == startswith(ls, lit) /\ AllSpaceFrom(ls, Len(lit) + 1)

\* \d+ at position i: the position after the run, or 0 when there is no digit.
DigitsAt(s, i) == IF i >= 1 /\ i <= Len(s) /\ IsDigit(Char(s, i))
                  THEN RunEnd(s, i, IsDigit) ELSE 0

\* \s+ at position i, likewise.
SpacesAt(s, i) == IF i >= 1 /\ i <= Len(s) /\ IsSpace(Char(s, i))
                  THEN RunEnd(s, i, IsSpace) ELSE 0

\* [A-Z][^.]*$ at position i, with re.IGNORECASE
CapitalNoDotToEnd(s, i) ==
    /\ i >= 1 /\ i <= Len(s)
    /\ IsAlpha(Char(s, i))
    /\ \A j \in (i + 1)..Len(s) : ~IsDot(Char(s, j))

\* ^\d+\.
MatchNumberedPrefix(s) ==
    LET d == DigitsAt(s, 1) IN d # 0 /\ IsDot(Char(s, d))

\* ^\d+\.\d+
MatchSubNumberedPrefix(s) ==
    LET d == DigitsAt(s, 1)
    IN  d # 0 /\ IsDot(Char(s, d)) /\ DigitsAt(s, d + 1) # 0

\* ^\d+\.\s+[A-Z][^.]*$
MatchNumbered(s) ==
    LET d == DigitsAt(s, 1)
    IN  /\ d # 0 /\ IsDot(Char(s, d))
        /\ CapitalNoDotToEnd(s, SpacesAt(s, d + 1))

\* ^\d+\.\d+\s+[A-Z][^.]*$
MatchSubNumbered(s) ==
    LET d  == DigitsAt(s, 1)
        d2 == IF d # 0 /\ IsDot(Char(s, d)) THEN DigitsAt(s, d + 1) ELSE 0
    IN  d2 # 0 /\ CapitalNoDotToEnd(s, SpacesAt(s, d2))

\* ^\d+\s+(References)\s*$ with re.IGNORECASE, on the lower-cased text ls
MatchNumberReferences(ls) ==
    LET d  == DigitsAt(ls, 1)
        sp == IF d # 0 THEN SpacesAt(ls, d) ELSE 0
    IN  /\ sp # 0
        /\ MatchAt(ls, sp, "references")
        /\ AllSpaceFrom(ls, sp + Len("references"))

\* ^Chapter\s+\d+ and ^Section\s+\d+ with re.IGNORECASE, on the lower-cased
\* text ls
MatchWordNumber(ls, word) ==
    /\ startswith(ls, word)
    /\ LET sp == SpacesAt(ls, Len(word) + 1) IN sp # 0 /\ DigitsAt(ls, sp) # 0

\* re.search(word\s+\d+, s, re.IGNORECASE), on the lower-cased text ls
SearchWordNumber(ls, word) ==
    \E i \in 1..(Len(ls) - Len(word) + 1) :
        /\ MatchAt(ls, i, word)
        /\ LET sp == SpacesAt(ls, i + Len(word)) IN sp # 0 /\ DigitsAt(ls, sp) # 0

\* re.search(r'\w\.\w', s)
SearchWordDotWord(s) ==
    \E i \in 2..(Len(s) - 1) :
        IsDot(Char(s, i)) /\ IsWordChar(Char(s, i - 1)) /\ IsWordChar(Char(s, i + 1))

\* heading_patterns: some pattern of the list matches (the loop stops at the
\* first one, and the level it sets does not depend on which one it was).
MatchesHeadingPattern(s) ==
    LET ls == lower(s)
    IN  \/ \E lit \in FixedHeadings : MatchFixed(ls, lit)
        \/ MatchNumbered(s)
        \/ MatchSubNumbered(s)
        \/ MatchNumberReferences(ls)
        \/ MatchWordNumber(ls, "chapter")
        \/ MatchWordNumber(ls, "section")

\* The exclusions of _is_valid_heading_candidate, each a re.search with
\* re.IGNORECASE.
MatchesExclusion(s) ==
    LET ls == lower(s)
    IN  \/ isdigit(s)
        \/ SearchWordNumber(ls, "page")
        \/ \E i \in 1..Len(s) :
              Char(s, i) = "©" /\ \E j \in (i + 1)..Len(s) : MatchAt(ls, j, "copyright")
        \/ contains(ls, "www.")
        \/ SearchWordNumber(ls, "version")
        \/ contains(ls, "email") \/ contains(s, "@")
        \/ contains(ls, "http://") \/ contains(ls, "https://")

(***************************************************************************)
(* The work the three passes do on one line.                               *)
(***************************************************************************)
\* round(size, 1) on hundredths of a point: to the nearest tenth, an exact
\* half going to the even tenth (sizes ending in 5 hundredths are exact in
\* binary only at .25 and .75).
Round1(x) == LET q == x \div 10
                 r == x % 10
             IN  IF r < 5 THEN q * 10
                 ELSE IF r > 5 THEN (q + 1) * 10
                 ELSE IF q % 2 = 0 THEN q * 10 ELSE (q + 1) * 10

\* _analyze_font_characteristics: the line counts for the body size.
CountsForBody(line) == Len(strip(line.text)) > 3

TitleWindow == 10

HasTitlePhrase(t) == LET lt == lower(t) IN \E ph \in TitlePhrases : contains(lt, ph)

\* The "obvious non-titles" test of the candidate loop.
SkipAsTitle(t) ==
    LET lt == lower(t)
    IN  \/ t = ""
        \/ Len(t) < 3
        \/ isdigit(t)
        \/ contains(lt, "copyright")
        \/ contains(lt, "version")
        \/ contains(t, "©")
        \/ (contains(lt, "page") /\ count(lt, "page") > 0)

\* The score of the line at index i (0-based), in hundredths.
TitleScore(line, i, body) ==
    LET t  == strip(line.text)
        wc == Len(split(t))
    IN    (IF line.avg_font_size > body THEN (line.avg_font_size - body) * 5 ELSE 0)
        + (IF line.is_bold THEN 1000 ELSE 0)
        + (IF 0 <= i /\ i <= 5 THEN (15 - i * 2) * 100 ELSE 0)
        + (IF 2 <= wc /\ wc <= 6 THEN 1500 ELSE IF wc = 1 THEN 500 ELSE 0)
        + (IF HasTitlePhrase(t) THEN 2000 ELSE 0)

\* One iteration of the loop over lines[:10]: nothing for a skipped line,
\* else the (score, text, i) tuple appended to title_candidates.
TitleCandidate(line, i, body) ==
    LET t == strip(line.text)
    IN  IF SkipAsTitle(t) THEN <<>>
        ELSE << [score |-> TitleScore(line, i, body), text |-> t, i |-> i] >>

Abs(x) == IF x < 0 THEN -x ELSE x

\* The test made on a neighbour (check_line) of the best line.
RelatedTitlePart(check_line, best_line) ==
    LET check_text == strip(check_line.text)
    IN  /\ check_text # ""
        /\ Abs(check_line.avg_font_size - best_line.avg_font_size) < 200
        /\ HasTitlePhrase(check_text)
        /\ Len(split(check_text)) <= 8

_is_valid_heading_candidate(t, line, body_size) ==
    LET lt == lower(t)
        wc == Len(split(t))
    IN  IF Len(t) < 3 \/ Len(t) > 150 THEN FALSE
        ELSE IF MatchesExclusion(t) THEN FALSE
        ELSE IF wc > 15 THEN FALSE
        ELSE IF \/ count(lt, "the ") > 2
                \/ count(lt, " and ") > 1
                \/ (endswith(t, ".") /\ wc > 8)
             THEN FALSE
        ELSE TRUE

_clean_heading_text(t) ==
    LET t1 == join(split(t))
        t2 == IF /\ Len(split(t1)) <= 8
                 /\ ~endswith(t1, "...")
                 /\ endswith(t1, ".")
                 /\ ~SearchWordDotWord(t1)
              THEN rstrip_dot(t1)
              ELSE t1
    IN  strip(t2)

\* A faulty level rule that never looks for the digits '.' digits prefix.
PatternLevelFlat(t) == "H1"

\* The level the pattern loop sets once a pattern has matched.
PatternLevel(t) ==
    IF MatchSubNumberedPrefix(t) THEN "H2"
    ELSE IF MatchNumberedPrefix(t) THEN "H1"
    ELSE "H1"

\* any(word in text.lower() for word in [...]): a substring test.
HasCommonWord(t) == LET lt == lower(t) IN \E w \in CommonWords : contains(lt, w)

\* The body of the heading loop between the validity filter and "Add
\* heading if valid": pattern-based detection first, font-based otherwise.
ClassifyLine(t, line, body_size) ==
    IF MatchesHeadingPattern(t)
    THEN [is_heading |-> TRUE, heading_level |-> PatternLevel(t)]
    ELSE IF line.avg_font_size > body_size + 200
    THEN [is_heading |-> TRUE,
          heading_level |-> IF line.avg_font_size > body_size + 400 THEN "H1" ELSE "H2"]
    ELSE IF line.is_bold /\ line.avg_font_size > body_size + 50
    THEN IF /\ Len(split(t)) <= 10
            /\ ~HasCommonWord(t)
            /\ IsUpper(Char(t, 1))
         THEN [is_heading |-> TRUE, heading_level |-> "H2"]
         ELSE [is_heading |-> FALSE, heading_level |-> "None"]
    ELSE [is_heading |-> FALSE, heading_level |-> "None"]

\* One iteration of the heading loop up to the final validation: the
\* stripped text, the verdict of the validity filter, the classification and
\* the cleaned text (computed for a heading only).
HeadingRecord(t, ok, cls) ==
    [ text          |-> t,
      valid         |-> ok,
      is_heading    |-> cls.is_heading,
      heading_level |-> cls.heading_level,
      clean_text    |-> IF cls.is_heading /\ cls.heading_level # "None"
                        THEN _clean_heading_text(t) ELSE "" ]

ClassifyValidLine(t, line, body_size, ok) ==
    HeadingRecord(t, ok, IF ok THEN ClassifyLine(t, line, body_size)
                         ELSE [is_heading |-> FALSE, heading_level |-> "None"])

HeadingOfLine(line, body_size) ==
    ClassifyValidLine(strip(line.text), line, body_size,
                      _is_valid_heading_candidate(strip(line.text), line, body_size))

(***************************************************************************)
(* The lines of the documents the model is run on: the text_lines that     *)
(* _extract_formatted_lines builds (text already stripped and not empty).  *)
(***************************************************************************)
TextLine(t, size, bold) == [text |-> t, avg_font_size |-> size, is_bold |-> bold]

\* Lines for the heading classifier and the font profiler.
HeadingLines == {
    TextLine("Revision History", 1700, FALSE),
    TextLine("1.1 Intended Audience", 1300, FALSE),
    TextLine("History", 1300, TRUE),
    TextLine("Key  Terms..", 1700, FALSE),
    TextLine("Summary", 1200, FALSE),
    TextLine("A..", 1700, FALSE),
    TextLine("Summary.", 1304, TRUE),
    TextLine("1.1 Scope.", 1700, TRUE) }

\* The ones of them used in documents of several pages.
RepeatedLines == {
    TextLine("Revision History", 1700, FALSE),
    TextLine("Summary", 1200, FALSE),
    TextLine("A..", 1700, FALSE),
    TextLine("Summary.", 1304, TRUE) }

\* Lines for the title selector.
TitleLines == {
    TextLine("Overview", 1400, TRUE),
    TextLine("Foundation Level Extension", 1400, TRUE),
    TextLine("User Guide Version 2", 1400, FALSE),
    TextLine("Manual", 1700, FALSE),
    TextLine("Summary", 1200, FALSE) }

\* A line the title selector always skips (a bare page number).
FillerLine == TextLine("7", 1200, FALSE)

Lines == HeadingLines \cup TitleLines \cup {FillerLine}

DefaultBodySize == 1200

ThresholdDelta == 50

\* The body sizes the font profiler can return on these lines.
BodySizes == {Round1(l.avg_font_size) : l \in Lines} \cup {DefaultBodySize}

(***************************************************************************)
(* TLC evaluates a constant definition once: the work on one line is       *)
(* tabulated over the lines, indexes and body sizes of the model, and the  *)
(* passes below look it up.                                                *)
(***************************************************************************)
CountsForBodyOf == [l \in Lines |-> CountsForBody(l)]

TitleCandidateOf == [l \in Lines, i \in 0..(TitleWindow - 1), b \in BodySizes |->
                        TitleCandidate(l, i, b)]

RelatedTitlePartOf == [c \in Lines, b \in Lines |-> RelatedTitlePart(c, b)]

StrippedTextOf == [l \in Lines |-> strip(l.text)]

HeadingOfLineOf == [l \in Lines, b \in BodySizes |-> HeadingOfLine(l, b)]

(***************************************************************************)
(* _analyze_font_characteristics                                           *)
(***************************************************************************)
\* The lines of all pages in document order, each with its page number.
RECURSIVE FlatLines(_, _)
FlatLines(pages, k) ==
    IF k > Len(pages) THEN <<>>
    ELSE [i \in 1..Len(pages[k]) |-> [page_num |-> k, line |-> pages[k][i]]]
         \o FlatLines(pages, k + 1)

\* A faulty most_common(1) in which the last key of the highest count wins.
LastMostCommon(xs) ==
    LET cnt(v) == Cardinality({i \in 1..Len(xs) : xs[i] = v})
        top    == Max({cnt(xs[i]) : i \in 1..Len(xs)})
    IN  xs[Max({i \in 1..Len(xs) : cnt(xs[i]) = top})]

\* Counter(...).most_common(1)[0][0]: the keys are kept in the order of
\* their first occurrence, and the first key of the highest count wins.
MostCommon1(xs) ==
    LET cnt(v) == Cardinality({i \in 1..Len(xs) : xs[i] = v})
        top    == Max({cnt(xs[i]) : i \in 1..Len(xs)})
    IN  xs[Min({i \in 1..Len(xs) : cnt(xs[i]) = top})]

\* sorted(set(...), reverse=True)
RECURSIVE SortedDesc(_)
SortedDesc(S) == IF S = {} THEN <<>> ELSE <<Max(S)>> \o SortedDesc(S \ {Max(S)})

_analyze_font_characteristics(pages) ==
    LET flat      == FlatLines(pages, 1)
        Long(e)   == CountsForBodyOf[e.line]
        kept      == SelectSeq(flat, Long)
        all_sizes == [i \in 1..Len(kept) |-> Round1(kept[i].line.avg_font_size)]
        body      == IF all_sizes # <<>> THEN MostCommon1(all_sizes) ELSE DefaultBodySize
    IN  [ body_font_size |-> body,
          size_threshold |-> body + ThresholdDelta,
          unique_sizes   |-> SortedDesc(Range(all_sizes)),
          all_lines      |-> [i \in 1..Len(kept) |-> kept[i].line] ]

(***************************************************************************)
(* _extract_title_improved                                                 *)
(***************************************************************************)
\* A faulty candidate loop over every line of the page, not lines[:10].
RECURSIVE TitleCandidatesOfPage(_, _, _)
TitleCandidatesOfPage(lines, body, i) ==
    IF i >= Len(lines) THEN <<>>
    ELSE TitleCandidate(lines[i + 1], i, body) \o TitleCandidatesOfPage(lines, body, i + 1)

\* title_candidates after the loop over lines[:10].
RECURSIVE TitleCandidates(_, _, _)
TitleCandidates(lines, body, i) ==
    IF i >= TitleWindow \/ i >= Len(lines) THEN <<>>
    ELSE TitleCandidateOf[lines[i + 1], i, body] \o TitleCandidates(lines, body, i + 1)

\* A faulty sort that puts the last of several equal scores first.
RECURSIVE SortByScoreDescLastFirst(_)
SortByScoreDescLastFirst(cs) ==
    IF cs = <<>> THEN <<>>
    ELSE LET top  == Max({cs[k].score : k \in 1..Len(cs)})
             pos  == Max({k \in 1..Len(cs) : cs[k].score = top})
             rest == [k \in 1..(Len(cs) - 1) |-> IF k < pos THEN cs[k] ELSE cs[k + 1]]
         IN  <<cs[pos]>> \o SortByScoreDescLastFirst(rest)

\* list.sort(key=score, reverse=True): stable, so equal scores keep their order.
RECURSIVE SortByScoreDesc(_)
SortByScoreDesc(cs) ==
    IF cs = <<>> THEN <<>>
    ELSE LET top  == Max({cs[k].score : k \in 1..Len(cs)})
             pos  == Min({k \in 1..Len(cs) : cs[k].score = top})
             rest == [k \in 1..(Len(cs) - 1) |-> IF k < pos THEN cs[k] ELSE cs[k + 1]]
         IN  <<cs[pos]>> \o SortByScoreDesc(rest)

\* The line at check_idx (0-based) exists and is a related title part of
\* the best line.
AbsorbsNeighbour(lines, best, check_idx) ==
    /\ 0 <= check_idx /\ check_idx < Len(lines)
    /\ RelatedTitlePartOf[lines[check_idx + 1], lines[best + 1]]

NoIndex == -1

\* The indexes (0-based) of the title parts: the best line, the line
\* before it first and the line after it last when they are absorbed.
TitlePartIndexes(lines, best) ==
    (IF AbsorbsNeighbour(lines, best, best - 1) THEN <<best - 1>> ELSE <<>>)
    \o <<best>>
    \o (IF AbsorbsNeighbour(lines, best, best + 1) THEN <<best + 1>> ELSE <<>>)

\* combined_title_parts: the text of the best candidate and the trimmed
\* texts of the absorbed neighbours.
TitleParts(lines, best_candidate, idx) ==
    [k \in 1..Len(idx) |->
        IF idx[k] = best_candidate.i THEN best_candidate.text
        ELSE StrippedTextOf[lines[idx[k] + 1]]]

\* The part of _extract_title_improved after the sort.
TitleOfCandidates(lines, sorted, idx) ==
    IF sorted # <<>>
    THEN [ title_candidates     |-> sorted,
           best_line_idx        |-> sorted[1].i,
           combined_title_parts |-> TitleParts(lines, sorted[1], idx),
           part_idx             |-> idx,
           title                |-> strip(join(TitleParts(lines, sorted[1], idx))) ]
    ELSE [ title_candidates     |-> <<>>,
           best_line_idx        |-> NoIndex,
           combined_title_parts |-> <<>>,
           part_idx             |-> <<>>,
           title                |-> DocumentTitle ]

TitleOfSorted(lines, sorted) ==
    TitleOfCandidates(lines, sorted,
                      IF sorted # <<>> THEN TitlePartIndexes(lines, sorted[1].i) ELSE <<>>)

_extract_title_improved(first_page_data, stats) ==
    TitleOfSorted(first_page_data,
                  SortByScoreDesc(TitleCandidates(first_page_data, stats.body_font_size, 0)))

(***************************************************************************)
(* _extract_headings_improved                                              *)
(***************************************************************************)
\* A faulty duplicate test that looks at the last heading only.
IsRepeatOfLastHeading(t, existing_headings) ==
    existing_headings # <<>> /\ existing_headings[Len(existing_headings)].text = t

_is_duplicate_heading(t, existing_headings) ==
    \E k \in 1..Len(existing_headings) : existing_headings[k].text = t

\* The final validation before headings.append.
AcceptHeading(ct, existing_headings) ==
    ct # "" /\ Len(ct) > 2 /\ ~_is_duplicate_heading(ct, existing_headings)

\* (x['page'], x['text']) of a is less than that of b.
KeyLess(a, b) ==
    \/ a.page < b.page
    \/ (a.page = b.page /\ a.text # b.text /\ TextLE(a.text, b.text))

\* A faulty sort by page alone: the headings of a page keep their order.
RECURSIVE SortHeadingsByPage(_)
SortHeadingsByPage(hs) ==
    IF hs = <<>> THEN <<>>
    ELSE LET pos  == Min({k \in 1..Len(hs) : \A j \in 1..Len(hs) : hs[j].page >= hs[k].page})
             rest == [k \in 1..(Len(hs) - 1) |-> IF k < pos THEN hs[k] ELSE hs[k + 1]]
         IN  <<hs[pos]>> \o SortHeadingsByPage(rest)

\* headings.sort(key=lambda x: (x['page'], x['text'])): stable, ascending.
RECURSIVE SortHeadings(_)
SortHeadings(hs) ==
    IF hs = <<>> THEN <<>>
    ELSE LET pos  == Min({k \in 1..Len(hs) : \A j \in 1..Len(hs) : ~KeyLess(hs[j], hs[k])})
             rest == [k \in 1..(Len(hs) - 1) |-> IF k < pos THEN hs[k] ELSE hs[k + 1]]
         IN  <<hs[pos]>> \o SortHeadings(rest)

(***************************************************************************)
(* The documents the model is run on.                                      *)
(***************************************************************************)
MaxPages == 2

MaxDocLines == 3

MaxPad == 9

MaxTail == 2

RECURSIVE SeqsOfLen(_, _)
SeqsOfLen(S, n) == IF n = 0 THEN {<<>>}
                   ELSE {<<x>> \o r : x \in S, r \in SeqsOfLen(S, n - 1)}

SeqsUpTo(S, n) == UNION {SeqsOfLen(S, k) : k \in 0..n}

\* The documents of exactly p pages and at most n lines in all.
RECURSIVE DocsOf(_, _, _)
DocsOf(S, p, n) ==
    IF p = 0 THEN {<<>>}
    ELSE UNION {{<<pg>> \o d : pg \in SeqsOfLen(S, k), d \in DocsOf(S, p - 1, n - k)}
                : k \in 0..n}

\* Documents of up to MaxPages pages (none included).
PagedDocs == UNION {DocsOf(RepeatedLines, p, MaxDocLines) : p \in 0..MaxPages}

\* One-page documents over all the heading lines.
OnePageDocs == {<<pg>> : pg \in SeqsUpTo(HeadingLines, MaxDocLines)}

\* One-page documents: some page-number lines, then a few title lines.
PaddedDocs ==
    {<<[i \in 1..pad |-> FillerLine] \o tail>> :
        pad \in 0..MaxPad, tail \in SeqsUpTo(TitleLines, MaxTail)}

Docs == PagedDocs \cup OnePageDocs \cup PaddedDocs

(***************************************************************************)
(* extract_structure, from the point where pages_data is built.            *)
(***************************************************************************)
NoStats == [body_font_size |-> 0, size_threshold |-> 0,
            unique_sizes |-> <<>>, all_lines |-> <<>>]

NoResult == [title |-> "", outline |-> <<>>]

Init ==
    /\ pages_data \in Docs
    /\ pc = "font"
    /\ font_stats = NoStats
    /\ title_candidates = <<>>
    /\ best_line_idx = NoIndex
    /\ combined_title_parts = <<>>
    /\ part_idx = <<>>
    /\ title = ""
    /\ headings = <<>>
    /\ cursor = 1
    /\ text = ""
    /\ is_heading = FALSE
    /\ heading_level = "None"
    /\ clean_text = ""
    /\ result = NoResult

\* font_stats = self._analyze_font_characteristics(pages_data)
AnalyzeFont ==
    /\ pc = "font"
    /\ font_stats' = _analyze_font_characteristics(pages_data)
    /\ pc' = "title"
    /\ UNCHANGED <<pages_data, title_candidates, best_line_idx, combined_title_parts,
                   part_idx, title, headings, cursor, text, is_heading,
                   heading_level, clean_text, result>>

\* title = self._extract_title_improved(pages_data[0], font_stats)
ExtractTitle ==
    /\ pc = "title"
    /\ pages_data # <<>>
    /\ LET r == _extract_title_improved(pages_data[1], font_stats)
       IN  /\ title_candidates' = r.title_candidates
           /\ best_line_idx' = r.best_line_idx
           /\ combined_title_parts' = r.combined_title_parts
           /\ part_idx' = r.part_idx
           /\ title' = r.title
    /\ pc' = "headings"
    /\ UNCHANGED <<pages_data, font_stats, headings, cursor, text, is_heading,
                   heading_level, clean_text, result>>

\* pages_data[0] on an empty list raises IndexError; the except clause of
\* extract_structure returns the error result.
TitleIndexError ==
    /\ pc = "title"
    /\ pages_data = <<>>
    /\ result' = [title |-> ErrorTitle, outline |-> <<>>]
    /\ pc' = "done"
    /\ UNCHANGED <<pages_data, font_stats, title_candidates, best_line_idx,
                   combined_title_parts, part_idx, title, headings, cursor,
                   text, is_heading, heading_level, clean_text>>

\* One iteration of the loops of _extract_headings_improved over the pages
\* and their text_lines.  A line the validity filter rejects takes the
\* "continue": is_heading, heading_level and clean_text keep the values of
\* the previous iteration.
HeadingLineStep(e, h) ==
    /\ text' = h.text
    /\ IF ~h.valid
       THEN UNCHANGED <<is_heading, heading_level, clean_text, headings>>
       ELSE /\ is_heading' = h.is_heading
            /\ heading_level' = h.heading_level
            /\ IF h.is_heading /\ h.heading_level # "None"
               THEN /\ clean_text' = h.clean_text
                    /\ headings' =
                         IF AcceptHeading(h.clean_text, headings)
                         THEN Append(headings, [level |-> h.heading_level,
                                                text  |-> h.clean_text,
                                                page  |-> e.page_num])
                         ELSE headings
               ELSE UNCHANGED <<clean_text, headings>>

HeadingLine ==
    /\ pc = "headings"
    /\ cursor <= Len(FlatLines(pages_data, 1))
    /\ HeadingLineStep(FlatLines(pages_data, 1)[cursor],
                       HeadingOfLineOf[FlatLines(pages_data, 1)[cursor].line,
                                       font_stats.body_font_size])
    /\ cursor' = cursor + 1
    /\ UNCHANGED <<pages_data, pc, font_stats, title_candidates, best_line_idx,
                   combined_title_parts, part_idx, title, result>>

\* The end of the loops: headings.sort(...), return headings, and the
\* return of extract_structure.
ReturnStructure ==
    /\ pc = "headings"
    /\ cursor > Len(FlatLines(pages_data, 1))
    /\ headings' = SortHeadings(headings)
    /\ result' = [title |-> title, outline |-> SortHeadings(headings)]
    /\ pc' = "done"
    /\ UNCHANGED <<pages_data, font_stats, title_candidates, best_line_idx,
                   combined_title_parts, part_idx, title, cursor, text,
                   is_heading, heading_level, clean_text>>

Next == AnalyzeFont \/ ExtractTitle \/ TitleIndexError \/ HeadingLine \/ ReturnStructure

Spec == Init /\ [][Next]_vars

(***************************************************************************)
(* What the properties below read off a state.                             *)
(***************************************************************************)
Flat == FlatLines(pages_data, 1)

\* The title selector has run.
TitleChosen == pc \in {"headings", "done"} /\ pages_data # <<>>

\* The heading loop has just handled the line Flat[cursor - 1].
LineHandled == pc \in {"headings", "done"} /\ pages_data # <<>> /\ cursor > 1

LastLine == Flat[cursor - 1].line

\* Facts about the text of a line, each stated on its own: whether it passes
\* the validity filter, matches a heading pattern, begins with digits '.'
\* digits; its words; its whitespace-collapsed form.
LineFactsOf ==
    [l \in Lines |->
        LET t == strip(l.text)
        IN  [ valid      |-> _is_valid_heading_candidate(t, l, DefaultBodySize),
              pattern    |-> MatchesHeadingPattern(t),
              subnum     |-> MatchSubNumberedPrefix(t),
              words      |-> split(lower(t)),
              upper1     |-> IsUpper(Char(t, 1)),
              phrase     |-> \E ph \in TitlePhrases : contains(lower(t), ph),
              skipped    |-> SkipAsTitle(t),
              collapsed  |-> join(split(t)) ]]

\* The number of periods a text ends with.
TrailingDots(c) ==
    CHOOSE n \in 0..Len(c) :
        /\ \A k \in (Len(c) - n + 1)..Len(c) : Char(c, k) = "."
        /\ n = Len(c) \/ Char(c, Len(c) - n) # "."

\* C1: extract_structure never stops short of a result (before the end
\* some step applies: the font profile, the title or the error branch, a
\* line of the heading loop or the return), and the title it returns is
\* never empty: it is the sentinel "Error extracting title", or the
\* placeholder "Document Title" when no candidate survived the title
\* filter, or it is built around the text, of length 3 at least, of a
\* surviving candidate.
C1_TitleNeverEmpty ==
    /\ pc \in {"font", "title", "headings", "done"}
    /\ pc = "headings" => (pages_data # <<>> /\ cursor \in 1..(Len(Flat) + 1))
    /\ pc = "done" =>
         /\ result.title # ""
         /\ \/ result.title = ErrorTitle
            \/ (title_candidates = <<>> /\ result.title = DocumentTitle)
            \/ \E k \in 1..Len(title_candidates) :
                  /\ Len(title_candidates[k].text) >= 3
                  /\ contains(result.title, title_candidates[k].text)

\* C1 witness: a finished run whose title was assembled from a surviving
\* candidate and an absorbed neighbour.
C1_Witness ==
    /\ pc = "done"
    /\ title_candidates # <<>>
    /\ Len(combined_title_parts) >= 2
    /\ result.title = title
    /\ result.title \notin {ErrorTitle, DocumentTitle}

C3_OutlineTextsUnique ==
    /\ \A k \in 1..Len(headings) : Len(headings[k].text) > 2
    /\ \A i \in 1..Len(headings) : \A j \in 1..Len(headings) :
          i # j => headings[i].text # headings[j].text
    /\ pc = "done" => result.outline = headings \/ pages_data = <<>>

\* C3 witness: a finished run in which two lines of different pages, given
\* different levels, clean to the same text, and the outline has it once.
C3_Witness ==
    /\ pc = "done" /\ pages_data # <<>>
    /\ \E a \in 1..Len(Flat) : \E b \in 1..Len(Flat) :
          LET ha == HeadingOfLineOf[Flat[a].line, font_stats.body_font_size]
              hb == HeadingOfLineOf[Flat[b].line, font_stats.body_font_size]
          IN  /\ Flat[a].page_num < Flat[b].page_num
              /\ ha.is_heading /\ hb.is_heading
              /\ ha.heading_level # hb.heading_level
              /\ ha.clean_text = hb.clean_text
              /\ Cardinality({k \in 1..Len(result.outline) :
                                result.outline[k].text = ha.clean_text}) = 1

\* C4: on an empty page list extract_structure returns exactly the error
\* result: the title "Error extracting title" and an empty outline.
C4_EmptyPagesGiveErrorResult ==
    (pc = "done" /\ pages_data = <<>>) =>
        result = [title |-> "Error extracting title", outline |-> <<>>]

\* C4 witness: a finished run on the empty page list.
C4_Witness == pc = "done" /\ pages_data = <<>> /\ result.title = ErrorTitle

\* The rounded sizes of the lines whose trimmed text is longer than 3
\* characters, in document order.
QualifyingSizes ==
    LET Long(e) == Len(strip(e.line.text)) > 3
        kept    == SelectSeq(Flat, Long)
    IN  [i \in 1..Len(kept) |-> Round1(kept[i].line.avg_font_size)]

Occurrences(xs, v) == Cardinality({i \in 1..Len(xs) : xs[i] = v})

FirstAt(xs, v) == Min({i \in 1..Len(xs) : xs[i] = v})

\* C5: body_font_size is the most frequent rounded size among the lines of
\* more than 3 characters, the first one met among several of the highest
\* frequency; it is 12.0 when no line qualifies; and size_threshold is
\* body_font_size + 0.5.
C5_BodyFontSizeIsFirstMode ==
    pc = "title" =>
        LET xs == QualifyingSizes
            b  == font_stats.body_font_size
        IN  /\ font_stats.size_threshold = b + 50
            /\ xs = <<>> => b = 1200
            /\ xs # <<>> =>
                 /\ \E i \in 1..Len(xs) : xs[i] = b
                 /\ \A i \in 1..Len(xs) :
                       /\ Occurrences(xs, xs[i]) <= Occurrences(xs, b)
                       /\ Occurrences(xs, xs[i]) = Occurrences(xs, b)
                            => FirstAt(xs, b) <= FirstAt(xs, xs[i])

\* C5 witness: two sizes tie for the highest frequency and the one met
\* first wins, in a document that also has a line of 3 characters or fewer
\* and a size that rounding changes.
C5_Witness ==
    /\ pc = "title"
    /\ LET xs == QualifyingSizes
           b  == font_stats.body_font_size
       IN  /\ \E i \in 1..Len(xs) :
                 /\ xs[i] # b
                 /\ Occurrences(xs, xs[i]) = Occurrences(xs, b)
                 /\ FirstAt(xs, b) < i
           /\ Len(xs) < Len(Flat)
           /\ \E k \in 1..Len(Flat) : Round1(Flat[k].line.avg_font_size)
                                        # Flat[k].line.avg_font_size

\* C6: a line that passes the validity filter and matches a heading pattern
\* gets its level from its text alone, whatever its font size and weight:
\* H2 when the text begins with digits, '.', digits, and H1 otherwise.
C6_PatternLevelIgnoresFont ==
    (LineHandled /\ LineFactsOf[LastLine].valid /\ LineFactsOf[LastLine].pattern) =>
        /\ is_heading
        /\ heading_level = IF LineFactsOf[LastLine].subnum THEN "H2" ELSE "H1"

\* C6 witness: a sub-numbered line that the font rules alone would not make
\* a heading (not bold, at most body + 2) has been given H2.
C6_Witness ==
    /\ LineHandled
    /\ LineFactsOf[LastLine].valid /\ LineFactsOf[LastLine].pattern
    /\ LineFactsOf[LastLine].subnum
    /\ ~LastLine.is_bold
    /\ LastLine.avg_font_size <= font_stats.body_font_size + 200
    /\ heading_level = "H2"

\* C7 as stated: every part of the title (the chosen line and any absorbed
\* neighbour) is a line at index 0..9 of page 1.
C7_Stated_PartsWithinFirstTen ==
    TitleChosen => \A k \in 1..Len(part_idx) : part_idx[k] \in 0..9

\* C7 as amended: the chosen line is at index 0..9 of page 1 and the parts
\* are that line and at most its two neighbours, each part being the
\* trimmed text of its line; the preceding part is at index 0..8, the
\* following part at index 1..10, so that no line at index 11 or later
\* ever contributes.
C7_PartsWithinFirstEleven ==
    (TitleChosen /\ title_candidates # <<>>) =>
        /\ best_line_idx \in 0..9
        /\ Len(part_idx) = Len(combined_title_parts)
        /\ \E k \in 1..Len(part_idx) : part_idx[k] = best_line_idx
        /\ \A k \in 1..Len(part_idx) :
              /\ part_idx[k] \in {best_line_idx - 1, best_line_idx, best_line_idx + 1}
              /\ part_idx[k] \in 0..10
              /\ part_idx[k] < Len(pages_data[1])
              /\ combined_title_parts[k] = strip(pages_data[1][part_idx[k] + 1].text)

\* C7 witness: the line at index 10 has been absorbed into the title.
C7_Witness ==
    /\ TitleChosen
    /\ best_line_idx = 9
    /\ \E k \in 1..Len(part_idx) : part_idx[k] = 10
    /\ title = "Overview Foundation Level Extension"

\* C8: in the font-based fallback a bold line above body + 0.5 and at most
\* body + 2, of at most 10 words, starting with an uppercase letter and
\* having none of "the", "and", "or", "but", "with", "from" among its
\* words, is classified H2 ("History" is such a line).
C8_BoldHeadingWithoutCommonWords ==
    ( /\ LineHandled
      /\ LineFactsOf[LastLine].valid
      /\ ~LineFactsOf[LastLine].pattern
      /\ LastLine.avg_font_size <= font_stats.body_font_size + 200
      /\ LastLine.is_bold
      /\ LastLine.avg_font_size > font_stats.body_font_size + 50
      /\ Len(LineFactsOf[LastLine].words) <= 10
      /\ LineFactsOf[LastLine].upper1
      /\ \A k \in 1..Len(LineFactsOf[LastLine].words) :
            LineFactsOf[LastLine].words[k] \notin CommonWords )
    => (is_heading /\ heading_level = "H2")

LetterDotLetter(c) ==
    \E i \in 2..(Len(c) - 1) :
        Char(c, i) = "." /\ IsAlpha(Char(c, i - 1)) /\ IsAlpha(Char(c, i + 1))

\* The last handled line was classified as a heading, so that clean_text is
\* the cleaned form of text.
HeadingCleaned == LineHandled /\ LineFactsOf[LastLine].valid /\ is_heading

StatedScore(line, i, body) ==
    LET wc == Len(LineFactsOf[line].words)
    IN    (IF line.avg_font_size - body > 0 THEN 5 * (line.avg_font_size - body) ELSE 0)
        + (IF line.is_bold THEN 1000 ELSE 0)
        + (IF i \in 0..5 THEN 1500 - 200 * i ELSE 0)
        + (IF wc \in 2..6 THEN 1500 ELSE IF wc = 1 THEN 500 ELSE 0)
        + (IF LineFactsOf[line].phrase THEN 2000 ELSE 0)

\* The indexes (0-based) of the first 10 lines of page 1 that survive the
\* title filter.
Survivors ==
    {i \in 0..9 : i < Len(pages_data[1]) /\ ~LineFactsOf[pages_data[1][i + 1]].skipped}

====
